---- MODULE Spec2Model ----
(***************************************************************************)
(* Bank account HTTP API (golang-bank-api).                                *)
(*                                                                         *)
(* The model follows the latest revision of the program:                   *)
(*   src/unnamed/part_000   the API server: router, JWT middleware,        *)
(*                          handlers                                       *)
(*   src/types.go           Account, NewAccount and the PostgresStore      *)
(*                          (lines 133-310: dynamic UPDATE builder)        *)
(* The relational backend is modelled by what its statements do on the     *)
(* accounts table created by createAccountTable: a SERIAL primary key, a   *)
(* UNIQUE account number, and statement preparation that rejects a         *)
(* malformed statement or a wrong number of arguments.                     *)
(*                                                                         *)
(* Two specifications:                                                     *)
(*   Spec       requests served by the router registered in APIServer.Run  *)
(*   StoreSpec  calls of the Storage interface of PostgresStore            *)
(***************************************************************************)
EXTENDS Integers, Sequences, FiniteSets, TLC

VARIABLES
    db,      \* the accounts table: [rows: set of records, seq: next SERIAL value]
    now,     \* wall clock, in hours
    req,     \* the last request served (Spec) or store call made (StoreSpec)
    resp,    \* what the caller got back: [status, body] or the call's result
    stmts,   \* the statements the last operation sent to the database
    calls,   \* how many times the last request invoked the wrapped handler
    auth     \* the middleware's final state for the last request

vars == <<db, now, req, resp, stmts, calls, auth>>

----------------------------------------------------------------------------
(* Bounds of the model *)

\* Number of accounts the table holds when the server starts.
InitAccounts == 2

\* Number of clock steps.
MaxTicks == 2

\* Highest SERIAL value the model lets the sequence reach.
MaxSerial == 4

(* Program constants *)

\* rand.Intn(100000000)
RandLimit == 100000000

\* time.Hour * 72
TokenTTLHours == 72

\* A float64 holds 53 significant bits.
Float64MantissaBits == 53

StatusOK == 200
StatusBadRequest == 400
StatusForbidden == 403

JWT_SECRET == "secret"

----------------------------------------------------------------------------
(* Values *)

InitIds == 1 .. InitAccounts

\* The account number of the i-th account present at start.
InitNumber(i) == IF i = InitAccounts THEN RandLimit - 1 ELSE i - 1

\* Outcomes of rand.Intn(RandLimit) the model draws: the numbers in use, a
\* fresh one, and both ends of the range.
NumberSamples == {InitNumber(i) : i \in InitIds} \cup {0, InitAccounts, RandLimit - 1}

Times == {k * TokenTTLHours : k \in 0 .. MaxTicks}

NoError == ""
ErrNoFields == "no fields provided for update"
ErrNotFound == "account with id %d not found"
ErrInvalidId == "invalid account ID: %s"
ErrDecode == "json: cannot decode body"
ErrUnsupportedMethod == "unsupported method: %s"
ErrSyntax == "pq: syntax error"
ErrInsertArity == "pq: INSERT has more target columns than expressions"
ErrParamCount == "pq: got %d parameters but the statement requires %d"
ErrParamType == "pq: invalid input syntax for type"
ErrUniqueViolation == "pq: duplicate key value violates unique constraint \"accounts_number_key\""
ErrTokenMalformed == "token is malformed"
ErrTokenUnverifiable == "token is unverifiable: unexpected signing method"
ErrTokenSignature == "token signature is invalid"
ErrTokenExpired == "token has invalid claims: token is expired"

\* Arguments of a statement, typed as database/sql sends them.
TextArg(s) == [t |-> "text", s |-> s, n |-> 0]
IntArg(n) == [t |-> "int", s |-> "", n |-> n]
TimeArg(n) == [t |-> "time", s |-> "", n |-> n]
ArgValue(a) == IF a.t = "text" THEN a.s ELSE a.n

\* The zero value of the Account struct.
ZeroAccount ==
    [id |-> 0, first_name |-> "", last_name |-> "", number |-> 0, balance |-> 0,
     created_at |-> 0, updated_at |-> 0]

\* NewAccount(firstName, lastName): n is the outcome of rand.Intn, t of time.Now.
\* The ID field is left at its zero value.
NewAccount(firstName, lastName, n, t) ==
    [id |-> 0, first_name |-> firstName, last_name |-> lastName, number |-> n,
     balance |-> 0, created_at |-> t, updated_at |-> t]

----------------------------------------------------------------------------
(* The accounts table and the statements the store sends to it *)

\* CREATE TABLE accounts: the type of each column.
ColumnType ==
    [id |-> "int", first_name |-> "text", last_name |-> "text", number |-> "int",
     balance |-> "int", created_at |-> "time", updated_at |-> "time"]

Columns == DOMAIN ColumnType

ParamIndex(tok) ==
    CASE tok = "$1" -> 1
      [] tok = "$2" -> 2
      [] tok = "$3" -> 3
      [] tok = "$4" -> 4
      [] tok = "$5" -> 5
      [] tok = "$6" -> 6
      [] OTHER -> 0

IsParam(tok) == ParamIndex(tok) > 0

SeqMax(S) == IF S = {} THEN 0 ELSE CHOOSE m \in S : \A x \in S : x <= m

\* Statement preparation: the placeholders of a statement must be $1..$n
\* with no gap, and the call must pass exactly n arguments.
ParamError(params, args) ==
    LET used == {ParamIndex(params[i]) : i \in 1 .. Len(params)}
    IN  IF used # 1 .. SeqMax(used) THEN ErrParamType
        ELSE IF SeqMax(used) # Len(args) THEN ErrParamCount
        ELSE NoError

\* A statement's text is a sequence of pieces: words, "," and " ".
\* The lexer drops the blanks.
Lex(text) == SelectSeq(text, LAMBDA p : p # " ")

\* INSERT INTO accounts (cols) VALUES (values)
DBExecInsert(d, q, args) ==
    IF Len(q.cols) # Len(q.values) THEN [db |-> d, err |-> ErrInsertArity]
    ELSE IF ParamError(q.values, args) # NoError
    THEN [db |-> d, err |-> ParamError(q.values, args)]
    ELSE IF \E i \in 1 .. Len(q.cols) :
                args[ParamIndex(q.values[i])].t # ColumnType[q.cols[i]]
    THEN [db |-> d, err |-> ErrParamType]
    ELSE LET val(c) == LET i == CHOOSE i \in 1 .. Len(q.cols) : q.cols[i] = c
                       IN  ArgValue(args[ParamIndex(q.values[i])])
             row == [c \in Columns |-> IF c = "id" THEN d.seq ELSE val(c)]
             \* nextval is consumed even when the row is rejected
             d1 == [d EXCEPT !.seq = @ + 1]
         IN  IF \E r \in d.rows : r.number = row.number
             THEN [db |-> d1, err |-> ErrUniqueViolation]
             ELSE [db |-> [d1 EXCEPT !.rows = @ \cup {row}], err |-> NoError]

\* DELETE FROM accounts WHERE id = $1
DBExecDelete(d, args) ==
    IF Len(args) # 1 THEN [db |-> d, err |-> ErrParamCount]
    ELSE [db |-> [d EXCEPT !.rows = {r \in @ : r.id # args[1].n}], err |-> NoError]

\* SELECT * FROM accounts WHERE id = $1
DBQueryById(d, args) == {r \in d.rows : r.id = args[1].n}

\* UPDATE accounts SET col = val {, col = val} WHERE id = $k
\* toks: the statement's tokens; w: where WHERE stands; setPart: the tokens
\* between SET and WHERE.
ParseSetList(toks, w, setPart) ==
    IF /\ Len(toks) >= 3 /\ SubSeq(toks, 1, 3) = <<"UPDATE", "accounts", "SET">>
       /\ Cardinality({i \in 1 .. Len(toks) : toks[i] = "WHERE"}) = 1
       /\ Len(toks) = w + 3 /\ toks[w + 1] = "id" /\ toks[w + 2] = "="
       /\ IsParam(toks[w + 3])
       /\ Len(setPart) % 4 = 3
       /\ \A i \in 1 .. Len(setPart) :
              CASE i % 4 = 1 -> setPart[i] \in Columns
                [] i % 4 = 2 -> setPart[i] = "="
                [] i % 4 = 3 -> IsParam(setPart[i]) \/ setPart[i] = "NOW()"
                [] OTHER -> setPart[i] = ","
    THEN [ok |-> TRUE,
          sets |-> [k \in 1 .. (Len(setPart) + 1) \div 4 |->
                      [col |-> setPart[4 * k - 3], val |-> setPart[4 * k - 1]]],
          where |-> toks[w + 3]]
    ELSE [ok |-> FALSE, sets |-> <<>>, where |-> ""]

ParseClauses(toks, w) == ParseSetList(toks, w, SubSeq(toks, 4, w - 1))

ParseTokens(toks) == ParseClauses(toks, SeqMax({i \in 1 .. Len(toks) : toks[i] = "WHERE"}))

ParseUpdate(text) == ParseTokens(Lex(text))

\* The placeholders of a parsed UPDATE, in the order they appear.
UpdateParams(p) ==
    Append(SelectSeq([k \in 1 .. Len(p.sets) |-> p.sets[k].val], IsParam), p.where)

\* The row r after the assignments of p (the last assignment to a column wins).
UpdatedRow(r, p, args, t) ==
    [c \in Columns |->
        IF \E k \in 1 .. Len(p.sets) : p.sets[k].col = c
        THEN LET s == p.sets[SeqMax({k \in 1 .. Len(p.sets) : p.sets[k].col = c})]
             IN  IF s.val = "NOW()" THEN t ELSE ArgValue(args[ParamIndex(s.val)])
        ELSE r[c]]

\* The constraints of the table on the rows an UPDATE leaves.
CommitUpdate(d, rows1) ==
    IF \E r1, r2 \in rows1 : r1 # r2 /\ (r1.number = r2.number \/ r1.id = r2.id)
    THEN [db |-> d, err |-> ErrUniqueViolation]
    ELSE [db |-> [d EXCEPT !.rows = rows1], err |-> NoError]

\* p: the parsed statement; perr: what preparing it with args reports.
ExecParsedUpdate(d, p, args, t, perr) ==
    IF ~p.ok THEN [db |-> d, err |-> ErrSyntax]
    ELSE IF perr # NoError THEN [db |-> d, err |-> perr]
    ELSE IF \/ args[ParamIndex(p.where)].t # "int"
            \/ \E k \in 1 .. Len(p.sets) :
                  /\ IsParam(p.sets[k].val)
                  /\ args[ParamIndex(p.sets[k].val)].t # ColumnType[p.sets[k].col]
    THEN [db |-> d, err |-> ErrParamType]
    ELSE CommitUpdate(d, {IF r.id = args[ParamIndex(p.where)].n
                          THEN UpdatedRow(r, p, args, t) ELSE r : r \in d.rows})

PrepareUpdate(d, p, args, t) ==
    ExecParsedUpdate(d, p, args, t, IF p.ok THEN ParamError(UpdateParams(p), args) ELSE NoError)

DBExecUpdate(d, text, args, t) == PrepareUpdate(d, ParseUpdate(text), args, t)

----------------------------------------------------------------------------
(* PostgresStore *)

\* The execution context of one operation: the table, the response written so
\* far, the statements sent, and the operation's readings of the clock and of
\* the random source.
Context(d, t, n) ==
    [db |-> d, w |-> [status |-> 0, body |-> <<>>], stmts |-> <<>>, calls |-> 0,
     auth |-> "Unauthenticated", now |-> t, rand |-> n]

Sent(st, kind, args) == [st EXCEPT !.stmts = Append(@, [kind |-> kind, args |-> args])]

\* What a store operation returns after s.db.Exec(query, args...) gave res.
Executed(st, kind, args, res) ==
    [st |-> [Sent(st, kind, args) EXCEPT !.db = res.db], err |-> res.err]

InsertQuery ==
    [cols |-> <<"first_name", "last_name", "number", "balance", "created_at", "updated_at">>,
     values |-> <<"$1", "$2", "$3", "$4">>]

CreateArgs(account) ==
    <<TextArg(account.first_name), TextArg(account.last_name),
      IntArg(account.number), IntArg(account.balance),
      TimeArg(account.created_at), TimeArg(account.updated_at)>>

CreateAccount(st, account) ==
    Executed(st, "INSERT", CreateArgs(account),
             DBExecInsert(st.db, InsertQuery, CreateArgs(account)))

\* Mutant: a statement that affected no row is reported as an error.
DeleteAccount_ChecksRowsAffected(st, id) ==
    IF \E r \in st.db.rows : r.id = id
    THEN Executed(st, "DELETE", <<IntArg(id)>>, DBExecDelete(st.db, <<IntArg(id)>>))
    ELSE [st |-> Sent(st, "DELETE", <<IntArg(id)>>), err |-> ErrNotFound]

DeleteAccount(st, id) ==
    Executed(st, "DELETE", <<IntArg(id)>>, DBExecDelete(st.db, <<IntArg(id)>>))

\* The text built in queryBuffer, then cut by two characters (the pieces ","
\* and " " that end every assignment) and completed with the WHERE clause.
UpdateQuery(account) ==
    LET buf0 == <<"UPDATE", " ", "accounts", " ", "SET", " ">>
        buf1 == IF account.first_name # ""
                THEN buf0 \o <<"first_name", " ", "=", " ", "$1", ",", " ">>
                ELSE buf0
        buf2 == IF account.last_name # ""
                THEN buf1 \o <<"last_name", " ", "=", " ", "$2", ",", " ">>
                ELSE buf1
    IN  SubSeq(buf2, 1, Len(buf2) - 2)
            \o <<"updated_at", " ", "=", " ", "NOW()", " ", "WHERE", " ", "id", " ", "=", " ", "$3">>

\* append(updatedFields, id)
UpdateArgs(id, account) ==
    LET f1 == IF account.first_name # "" THEN <<TextArg(account.first_name)>> ELSE <<>>
        f2 == IF account.last_name # "" THEN <<TextArg(account.last_name)>> ELSE <<>>
    IN  (f1 \o f2) \o <<IntArg(id)>>

\* Mutant: the statement is sent whether or not a field was provided.
UpdateAccount_NoFieldCheck(st, id, account) ==
    Executed(st, "UPDATE", UpdateArgs(id, account),
             DBExecUpdate(st.db, UpdateQuery(account), UpdateArgs(id, account), st.now))

\* Mutant: the statement assigns the balance column.
UpdateAccount_WritesBalance(st, id, account) ==
    Executed(st, "UPDATE", <<IntArg(id)>>,
             DBExecUpdate(st.db,
                          <<"UPDATE", " ", "accounts", " ", "SET", " ", "balance", " ", "=", " ",
                            "$1", " ", "WHERE", " ", "id", " ", "=", " ", "$1">>,
                          <<IntArg(id)>>, st.now))

UpdateAccount(st, id, account) ==
    LET hasFieldsToUpdate == account.first_name # "" \/ account.last_name # "" IN
    IF hasFieldsToUpdate
    THEN Executed(st, "UPDATE", UpdateArgs(id, account),
                  DBExecUpdate(st.db, UpdateQuery(account), UpdateArgs(id, account), st.now))
    ELSE [st |-> st, err |-> ErrNoFields]

scanIntoAccount(row) == [c \in Columns |-> row[c]]

\* rows: what the query returned; the first row is scanned, if there is one.
FirstRow(st, rows) ==
    IF rows # {}
    THEN [st |-> st, account |-> scanIntoAccount(CHOOSE r \in rows : TRUE), err |-> NoError]
    ELSE [st |-> st, account |-> ZeroAccount, err |-> ErrNotFound]

\* Mutant: the query has no WHERE clause.
GetAccountById_AnyRow(st, id) ==
    FirstRow(Sent(st, "SELECT", <<IntArg(id)>>), st.db.rows)

GetAccountById(st, id) ==
    FirstRow(Sent(st, "SELECT", <<IntArg(id)>>), DBQueryById(st.db, <<IntArg(id)>>))

GetAccounts(st) ==
    [st |-> Sent(st, "SELECT", <<>>),
     accounts |-> {scanIntoAccount(r) : r \in st.db.rows}, err |-> NoError]

----------------------------------------------------------------------------
(* JSON responses *)

JValue(kind, msg, account, accounts, echo) ==
    [kind |-> kind, error |-> msg, account |-> account, accounts |-> accounts, echo |-> echo]

NoBody == [ok |-> TRUE, first_name |-> "", last_name |-> ""]

\* ApiError{Error: msg}
ApiError(msg) == JValue("error", msg, ZeroAccount, {}, NoBody)
JAccount(a) == JValue("account", "", a, {}, NoBody)
JAccounts(S) == JValue("accounts", "", ZeroAccount, S, NoBody)
JNull == JValue("null", "", ZeroAccount, {}, NoBody)
JEcho(b) == JValue("echo", "", ZeroAccount, {}, b)

\* WriteHeader sets the status once (a later call is superfluous and ignored);
\* Encode appends to the body.
WriteJSON(st, status, v) ==
    [st EXCEPT !.w = [status |-> IF @.status = 0 THEN status ELSE @.status,
                      body |-> Append(@.body, v)]]

\* json.NewDecoder(r.Body).Decode
Decode(body) == IF body.ok THEN NoError ELSE ErrDecode

----------------------------------------------------------------------------
(* Path parameter *)

DigitValue(c) ==
    CASE c = "0" -> 0 [] c = "1" -> 1 [] c = "2" -> 2 [] c = "3" -> 3 [] c = "4" -> 4
      [] c = "5" -> 5 [] c = "6" -> 6 [] c = "7" -> 7 [] c = "8" -> 8 [] c = "9" -> 9
      [] OTHER -> -1

RECURSIVE DigitsValue(_)
DigitsValue(s) ==
    IF s = <<>> THEN 0 ELSE 10 * DigitsValue(SubSeq(s, 1, Len(s) - 1)) + DigitValue(s[Len(s)])

\* strconv.Atoi: an optional sign, then one or more decimal digits.
Atoi(s) ==
    LET signed == s # <<>> /\ s[1] \in {"+", "-"}
        digits == IF signed THEN Tail(s) ELSE s
    IN  IF digits = <<>> \/ \E i \in 1 .. Len(digits) : DigitValue(digits[i]) < 0
        THEN [n |-> 0, err |-> ErrInvalidId]
        ELSE [n |-> IF signed /\ s[1] = "-" THEN -DigitsValue(digits) ELSE DigitsValue(digits),
              err |-> NoError]

\* mux.Vars(r)["id"] is the empty string on a route without {id}.
getId(r) ==
    LET a == Atoi(r.id)
    IN  IF a.err # NoError THEN [id |-> 0, err |-> ErrInvalidId] ELSE [id |-> a.n, err |-> NoError]

----------------------------------------------------------------------------
(* Token codec *)

\* A token as presented: its signing method, the key it was signed with, and
\* its claims (hasNum: whether it carries "acountNumber" at all).
Token(kind, alg, key, hasNum, num, exp) ==
    [kind |-> kind, alg |-> alg, key |-> key, hasNum |-> hasNum, num |-> num, exp |-> exp]

\* No Authorization header.
NoToken == Token("none", "", "", FALSE, 0, 0)

\* A header that is not three base64 segments.
GarbageToken == Token("garbage", "", "", FALSE, 0, 0)

HMACMethods == {"HS256", "HS384", "HS512"}

\* Mutant: the expiry is the time of issue.
createJWTToken_NoTTL(account, t) ==
    Token("jwt", "HS256", JWT_SECRET, TRUE, account.number, t)

createJWTToken(account, t) ==
    Token("jwt", "HS256", JWT_SECRET, TRUE, account.number, t + TokenTTLHours)

\* Mutant: the expiry of the claims is not checked.
validateJWTToken_NoExpiry(token, t) ==
    LET err == IF token.kind # "jwt" THEN ErrTokenMalformed
               ELSE IF token.alg \notin HMACMethods THEN ErrTokenUnverifiable
               ELSE IF token.key # JWT_SECRET THEN ErrTokenSignature
               ELSE NoError
    IN  [valid |-> err = NoError, err |-> err,
         claims |-> [hasNum |-> token.hasNum, acountNumber |-> token.num, exp |-> token.exp]]

\* jwt.Parse with the key function of validateJWTToken: segments, signing
\* method, signature, then the registered claims (exp is valid while now < exp).
validateJWTToken(token, t) ==
    LET err == IF token.kind # "jwt" THEN ErrTokenMalformed
               ELSE IF token.alg \notin HMACMethods THEN ErrTokenUnverifiable
               ELSE IF token.key # JWT_SECRET THEN ErrTokenSignature
               ELSE IF ~(t < token.exp) THEN ErrTokenExpired
               ELSE NoError
    IN  [valid |-> err = NoError, err |-> err,
         claims |-> [hasNum |-> token.hasNum, acountNumber |-> token.num, exp |-> token.exp]]

RECURSIVE BitLength(_)
BitLength(n) == IF n = 0 THEN 0 ELSE 1 + BitLength(n \div 2)

\* A non-negative JSON number read into a float64 and converted back with
\* int64(...): the bits below the 53 most significant are lost.
Float64ToInt64(n) ==
    LET drop == BitLength(n) - Float64MantissaBits
    IN  IF drop <= 0 THEN n ELSE (n \div (2 ^ drop)) * (2 ^ drop)

----------------------------------------------------------------------------
(* Request handlers: each returns the context it leaves and its error *)

Return(st, err) == [st |-> st, err |-> err]

\* if err != nil { return err }; return WriteJSON(w, http.StatusOK, v)
Respond(res, v) ==
    IF res.err # NoError THEN Return(res.st, res.err)
    ELSE Return(WriteJSON(res.st, StatusOK, v), NoError)

handleTransfer(st, r) == Respond(Return(st, Decode(r.body)), JEcho(r.body))

handleLogin(st, r) == Respond(Return(st, Decode(r.body)), JEcho(r.body))

\* g: what s.store.GetAccountById(id) returned.
RespondAccount(g) ==
    IF g.err # NoError THEN Return(g.st, g.err)
    ELSE Return(WriteJSON(g.st, StatusOK, JAccount(g.account)), NoError)

handleGetAccountById(st, r) ==
    IF getId(r).err # NoError THEN Return(st, getId(r).err)
    ELSE RespondAccount(GetAccountById(st, getId(r).id))

\* g: what s.store.GetAccounts() returned.
RespondAccounts(g) ==
    IF g.err # NoError THEN Return(g.st, g.err)
    ELSE Return(WriteJSON(g.st, StatusOK, JAccounts(g.accounts)), NoError)

handleGetAccount(st) == RespondAccounts(GetAccounts(st))

\* account: what NewAccount returned. createJWTToken(account) cannot fail and
\* its token is only printed.
CreateAndRespond(st, account) == Respond(CreateAccount(st, account), JAccount(account))

handleCreateAccount(st, r) ==
    IF Decode(r.body) # NoError THEN Return(st, Decode(r.body))
    ELSE CreateAndRespond(st, NewAccount(r.body.first_name, r.body.last_name, st.rand, st.now))

handleDeleteAccount(st, r) ==
    IF getId(r).err # NoError THEN Return(st, getId(r).err)
    ELSE Respond(DeleteAccount(st, getId(r).id), JNull)

handleUpdateAccount(st, r) ==
    IF Decode(r.body) # NoError THEN Return(st, Decode(r.body))
    ELSE IF getId(r).err # NoError THEN Return(st, getId(r).err)
    ELSE Respond(UpdateAccount(st, getId(r).id, r.body), JNull)

handleAccount(st, r) ==
    IF r.method = "GET" THEN handleGetAccount(st)
    ELSE IF r.method = "POST" THEN handleCreateAccount(st, r)
    ELSE Return(st, ErrUnsupportedMethod)

handleAccountById(st, r) ==
    IF r.method = "GET" THEN handleGetAccountById(st, r)
    ELSE IF r.method = "DELETE" THEN handleDeleteAccount(st, r)
    ELSE IF r.method = "PATCH" THEN handleUpdateAccount(st, r)
    ELSE Return(st, ErrUnsupportedMethod)

\* makeHTTPHandler(fn): res is what fn(w, r) returned.
makeHTTPHandler(res) ==
    IF res.err # NoError THEN WriteJSON(res.st, StatusBadRequest, ApiError(res.err))
    ELSE res.st

\* The http.HandlerFunc registered for a route, before any wrapping.
Handler(path, st, r) ==
    CASE path = "/login" -> makeHTTPHandler(handleLogin(st, r))
      [] path = "/account" -> makeHTTPHandler(handleAccount(st, r))
      [] path = "/account/{id}" -> makeHTTPHandler(handleAccountById(st, r))
      [] path = "/transfer" -> makeHTTPHandler(handleTransfer(st, r))

----------------------------------------------------------------------------
(* Authorization middleware *)

PermissionDeniedBody == ApiError("permission denied")

permissionDenied(st) ==
    [WriteJSON(st, StatusForbidden, PermissionDeniedBody) EXCEPT !.auth = "Denied"]

\* fn(w, r)
Invoke(fn, st, r) == Handler(fn, [st EXCEPT !.calls = @ + 1], r)

\* The checks of withJWTAuth once the token is parsed (token), the path id
\* read (userID) and the account looked up (g).
\* The type assertion claims["acountNumber"].(float64) panics when the
\* claim is absent; net/http recovers and the request gets no response.
\* A mismatch writes permission denied and goes on to fn(w, r).
Authorize(fn, st, r, token, userID, g) ==
    IF token.err # NoError THEN permissionDenied(st)
    ELSE IF ~token.valid THEN permissionDenied(st)
    ELSE IF userID.err # NoError THEN permissionDenied(st)
    ELSE IF g.err # NoError THEN permissionDenied(g.st)
    ELSE IF ~token.claims.hasNum THEN [g.st EXCEPT !.auth = "Panic"]
    ELSE Invoke(fn,
                IF g.account.number # Float64ToInt64(token.claims.acountNumber)
                THEN permissionDenied(g.st)
                ELSE [g.st EXCEPT !.auth = "OwnershipConfirmed"],
                r)

\* withJWTAuth(fn, s): fn is named by the route it was registered for.
withJWTAuth(fn, st, r) ==
    Authorize(fn, st, r, validateJWTToken(r.token, st.now), getId(r),
              GetAccountById(st, getId(r).id))

\* The handler APIServer.Run registers for each route: /login bare, the
\* others wrapped in withJWTAuth.
Run(st, r) ==
    IF r.path = "/login" THEN Handler(r.path, st, r) ELSE withJWTAuth(r.path, st, r)

----------------------------------------------------------------------------
(* Inputs *)

\* The table as the server finds it at start (CREATE TABLE IF NOT EXISTS keeps
\* the rows of earlier runs): rows that satisfy the table's constraints.
InitRow(i) ==
    [id |-> i, first_name |-> "Ada", last_name |-> "Lovelace", number |-> InitNumber(i),
     balance |-> 0, created_at |-> 0, updated_at |-> 0]

InitDB == [rows |-> {InitRow(i) : i \in InitIds}, seq |-> InitAccounts + 1]

Body(first, last) == [ok |-> TRUE, first_name |-> first, last_name |-> last]
MalformedBody == [ok |-> FALSE, first_name |-> "", last_name |-> ""]

PatchBodies == {MalformedBody} \cup {Body(f, l) : f \in {"", "Grace"}, l \in {"", "Hopper"}}
CreateBodies == {MalformedBody, Body("Ada", "Lovelace")}

\* Path ids: those of the initial accounts, one with no record, one that is
\* no number.
DigitChar(i) ==
    CASE i = 1 -> "1" [] i = 2 -> "2" [] i = 3 -> "3" [] i = 4 -> "4" [] OTHER -> "9"

IdStrings == {<<DigitChar(i)>> : i \in InitIds} \cup {<<"9">>, <<"x">>}

\* Tokens the server has issued: at start for every number in use, and at t
\* for the first.
IssuedTokens(t) ==
    {createJWTToken([number |-> InitNumber(i)], 0) : i \in InitIds}
    \cup {createJWTToken([number |-> InitNumber(1)], t)}

\* Tokens a caller may present at time t: the issued ones, none, one that
\* does not parse, and tokens for the first account that lack the claim, are
\* signed with another key, or name another signing method.
Tokens(t) ==
    IssuedTokens(t)
    \cup {NoToken, GarbageToken}
    \cup {[createJWTToken([number |-> InitNumber(1)], t) EXCEPT !.hasNum = FALSE, !.num = 0],
          [createJWTToken([number |-> InitNumber(1)], t) EXCEPT !.key = "other"],
          [createJWTToken([number |-> InitNumber(1)], t) EXCEPT !.alg = "RS256"]}

\* A request; rand is what rand.Intn returns while it is served.
Request(path, method, id, token, body, n) ==
    [path |-> path, method |-> method, id |-> id, token |-> token, body |-> body, rand |-> n]

NoRequest == Request("", "", <<>>, NoToken, NoBody, 0)

----------------------------------------------------------------------------
(* Spec: the server *)

Init ==
    /\ db = InitDB
    /\ now = 0
    /\ req = NoRequest
    /\ resp = [status |-> 0, body |-> <<>>]
    /\ stmts = <<>>
    /\ calls = 0
    /\ auth = "Unauthenticated"

\* One request, served to completion by the handler Run registered.
ServeHTTP(r) ==
    \E st \in {Run(Context(db, now, r.rand), r)} :
        /\ db' = st.db
        /\ req' = r
        /\ resp' = st.w
        /\ stmts' = st.stmts
        /\ calls' = st.calls
        /\ auth' = st.auth
        /\ UNCHANGED now

ServeLogin ==
    \E b \in CreateBodies : ServeHTTP(Request("/login", "POST", <<>>, NoToken, b, 0))

ServeAccount ==
    /\ db.seq <= MaxSerial
    /\ \E t \in Tokens(now) :
          \/ ServeHTTP(Request("/account", "GET", <<>>, t, NoBody, 0))
          \/ ServeHTTP(Request("/account", "POST", <<>>, t, MalformedBody, 0))
          \/ \E n \in NumberSamples :
                ServeHTTP(Request("/account", "POST", <<>>, t, Body("Ada", "Lovelace"), n))

ServeAccountById ==
    \E t \in Tokens(now), i \in IdStrings :
        \/ \E m \in {"GET", "DELETE"} : ServeHTTP(Request("/account/{id}", m, i, t, NoBody, 0))
        \/ \E b \in PatchBodies : ServeHTTP(Request("/account/{id}", "PATCH", i, t, b, 0))

ServeTransfer ==
    \E t \in Tokens(now) :
        ServeHTTP(Request("/transfer", "POST", <<>>, t, Body("Ada", "Lovelace"), 0))

\* Time passes between requests; the last exchange is over.
Tick ==
    /\ now < MaxTicks * TokenTTLHours
    /\ now' = now + TokenTTLHours
    /\ req' = NoRequest
    /\ resp' = [status |-> 0, body |-> <<>>]
    /\ stmts' = <<>>
    /\ calls' = 0
    /\ auth' = "Unauthenticated"
    /\ UNCHANGED db

Next == ServeLogin \/ ServeAccount \/ ServeAccountById \/ ServeTransfer \/ Tick

Spec == Init /\ [][Next]_vars

----------------------------------------------------------------------------
(* StoreSpec: the Storage interface of PostgresStore, called directly *)

StoreCall(op, id, account) == [op |-> op, id |-> id, account |-> account]

StoreResult(err, account, accounts) == [err |-> err, account |-> account, accounts |-> accounts]

StoreInit ==
    /\ db = InitDB
    /\ now = 0
    /\ req = StoreCall("", 0, ZeroAccount)
    /\ resp = StoreResult(NoError, ZeroAccount, {})
    /\ stmts = <<>>
    /\ calls = 0
    /\ auth = "Unauthenticated"

StoreIds == 0 .. InitAccounts + 1

Returned(call, st, result) ==
    /\ db' = st.db
    /\ req' = call
    /\ resp' = result
    /\ stmts' = st.stmts
    /\ UNCHANGED <<now, calls, auth>>

CallCreateAccount ==
    /\ db.seq <= MaxSerial
    /\ \E n \in NumberSamples, f \in {"Ada", "Grace"} :
          LET account == NewAccount(f, "Lovelace", n, now)
              c == CreateAccount(Context(db, now, n), account)
          IN  Returned(StoreCall("CreateAccount", 0, account), c.st,
                       StoreResult(c.err, ZeroAccount, {}))

CallDeleteAccount ==
    \E id \in StoreIds :
        LET d == DeleteAccount(Context(db, now, 0), id)
        IN  Returned(StoreCall("DeleteAccount", id, ZeroAccount), d.st,
                     StoreResult(d.err, ZeroAccount, {}))

CallUpdateAccount ==
    \E id \in StoreIds, f \in {"", "Grace"}, l \in {"", "Hopper"} :
        LET account == [ZeroAccount EXCEPT !.first_name = f, !.last_name = l]
            u == UpdateAccount(Context(db, now, 0), id, account)
        IN  Returned(StoreCall("UpdateAccount", id, account), u.st,
                     StoreResult(u.err, ZeroAccount, {}))

CallGetAccountById ==
    \E id \in StoreIds :
        LET g == GetAccountById(Context(db, now, 0), id)
        IN  Returned(StoreCall("GetAccountById", id, ZeroAccount), g.st,
                     StoreResult(g.err, g.account, {}))

CallGetAccounts ==
    LET g == GetAccounts(Context(db, now, 0))
    IN  Returned(StoreCall("GetAccounts", 0, ZeroAccount), g.st,
                 StoreResult(g.err, ZeroAccount, g.accounts))

\* Time passes between calls; the last call is over.
StoreTick ==
    /\ now < MaxTicks * TokenTTLHours
    /\ now' = now + TokenTTLHours
    /\ req' = StoreCall("", 0, ZeroAccount)
    /\ resp' = StoreResult(NoError, ZeroAccount, {})
    /\ stmts' = <<>>
    /\ UNCHANGED <<db, calls, auth>>

StoreNext ==
    \/ CallCreateAccount
    \/ CallDeleteAccount
    \/ CallUpdateAccount
    \/ CallGetAccountById
    \/ CallGetAccounts
    \/ StoreTick

StoreSpec == StoreInit /\ [][StoreNext]_vars

----------------------------------------------------------------------------
(* Properties *)

ProtectedPaths == {"/account", "/account/{id}", "/transfer"}

DeniedResponse == [status |-> StatusForbidden, body |-> <<PermissionDeniedBody>>]

\* The token of the last request is validly signed and names number n.
SignedFor(n) ==
    /\ req.token.kind = "jwt" /\ req.token.alg \in HMACMethods
    /\ req.token.key = JWT_SECRET /\ req.token.hasNum /\ req.token.num = n

\* C1: whenever the middleware ends in Denied the wrapped handler is not
\* invoked for that request, and the handler runs only after all checks
\* passed (OwnershipConfirmed).
C1_DeniedNeverInvokesHandler ==
    /\ auth = "Denied" => calls = 0
    /\ calls > 0 => auth = "OwnershipConfirmed"

\* C2: every denied request gets the same complete response, status 403 and
\* the body {"error":"permission denied"} and nothing else.
C2_DeniedResponseUniform == auth = "Denied" => resp = DeniedResponse

\* A token that is missing, does not parse, is signed with another secret or
\* with a non-HMAC method, or whose expiry lies before time t.
BadToken(token, t) ==
    \/ token.kind # "jwt"
    \/ token.alg \notin HMACMethods
    \/ token.key # JWT_SECRET
    \/ token.exp < t

\* C3: a request to a protected route whose token is missing, unparseable,
\* signed with another secret or a non-HMAC algorithm, or expired ends in
\* Denied, whatever the path id and the account-number claim.
C3_BadTokenDenied ==
    (req.path \in ProtectedPaths /\ BadToken(req.token, now))
        => (auth = "Denied" /\ calls = 0 /\ resp = DeniedResponse)

\* An expired token whose claim matches the account the path names is denied.
C3_Witness ==
    /\ req.path = "/account/{id}" /\ req.token.exp < now
    /\ \E a \in db.rows : a.id = getId(req).id /\ SignedFor(a.number)
    /\ auth = "Denied" /\ calls = 0

\* The body of the last request provides exactly one of the two names.
OneField(body) == body.ok /\ (body.first_name = "") # (body.last_name = "")

\* C4: a PATCH that passes the middleware and provides exactly one name
\* succeeds and changes exactly that field and the updated-timestamp of the
\* account the path names, leaving its other fields and the other accounts
\* as they were.
C4_SingleFieldUpdateApplies ==
    [][(/\ now' = now /\ req'.path = "/account/{id}" /\ req'.method = "PATCH"
        /\ auth' = "OwnershipConfirmed" /\ OneField(req'.body))
       => /\ resp'.status = StatusOK
          /\ db'.rows =
               {IF a.id # getId(req').id THEN a
                ELSE IF req'.body.first_name # ""
                THEN [a EXCEPT !.first_name = req'.body.first_name, !.updated_at = now]
                ELSE [a EXCEPT !.last_name = req'.body.last_name, !.updated_at = now]
                : a \in db.rows}]_vars

\* C5: UpdateAccount with both names empty fails with "no fields provided
\* for update" for every id, sends no statement and leaves the table as it was.
C5_NoFieldsRejected ==
    [][(/\ now' = now /\ req'.op = "UpdateAccount"
        /\ req'.account.first_name = "" /\ req'.account.last_name = "")
       => (resp'.err = ErrNoFields /\ stmts' = <<>> /\ db' = db)]_vars

\* UpdateAccount was called with both names empty on the id of a stored account.
C5_Witness ==
    /\ req.op = "UpdateAccount" /\ req.account.first_name = "" /\ req.account.last_name = ""
    /\ \E a \in db.rows : a.id = req.id
    /\ resp.err = ErrNoFields /\ stmts = <<>>

\* C6: POST /account with a well-formed body succeeds, persists the new
\* record and returns an Account with the store-assigned identifier (> 0), a
\* number in [0, 100000000) and balance 0.
C6_CreateSucceeds ==
    (req.path = "/account" /\ req.method = "POST" /\ req.body.ok)
        => /\ resp.status = StatusOK /\ Len(resp.body) = 1
           /\ resp.body[1].kind = "account"
           /\ resp.body[1].account.id > 0
           /\ resp.body[1].account.number >= 0 /\ resp.body[1].account.number < RandLimit
           /\ resp.body[1].account.balance = 0
           /\ resp.body[1].account \in db.rows

\* C7: a token createJWTToken issued for account A, presented before its
\* expiry with A's id in the path while A exists, passes every check and the
\* wrapped handler is invoked exactly once.
C7_IssuedTokenConfirmed ==
    [][(/\ now' = now /\ req'.path = "/account/{id}"
        /\ req'.token.kind = "jwt" /\ getId(req').err = NoError
        /\ \E a \in {x \in db.rows : x.id = getId(req').id} :
              \E t0 \in {u \in Times : u <= now /\ now < u + TokenTTLHours} :
                  req'.token = createJWTToken(a, t0))
       => (auth' = "OwnershipConfirmed" /\ calls' = 1)]_vars

\* The second account's own token, issued at start, let a request through.
C7_Witness ==
    /\ req.path = "/account/{id}" /\ req.method = "GET" /\ getId(req).id = InitAccounts
    /\ req.token = createJWTToken(InitRow(InitAccounts), 0)
    /\ auth = "OwnershipConfirmed" /\ calls = 1 /\ resp.status = StatusOK

\* C8: POST /account is not gated by the middleware: with a well-formed body
\* and no token it reaches the create handler and is not answered with
\* permission denied.
C8_CreateNotGated ==
    (req.path = "/account" /\ req.method = "POST" /\ req.body.ok /\ req.token = NoToken)
        => (auth # "Denied" /\ resp # DeniedResponse)

\* C9: CreateAccount with the number of a stored account fails with a
\* constraint violation, adds no record and leaves the stored one as it was;
\* no two stored accounts ever share a number.
C9_DuplicateNumberRejected ==
    [][/\ (/\ now' = now /\ req'.op = "CreateAccount"
           /\ \E a \in db.rows : a.number = req'.account.number)
          => (resp'.err = ErrUniqueViolation /\ db'.rows = db.rows)
       /\ \A a, b \in db'.rows : a.number = b.number => a = b]_vars

\* C10: every stored account keeps the number it was created with and the
\* balance 0: no request changes the number or balance of a stored record.
C10_NumberBalanceImmutable ==
    [][\A a \in db'.rows :
          /\ a.balance = 0
          /\ \A b \in db.rows : b.id = a.id => (b.number = a.number /\ b.balance = a.balance)]_vars

\* A PATCH and a DELETE were let through and the stored accounts still hold
\* their numbers and balance 0.
C10_Witness ==
    /\ req.method \in {"PATCH", "DELETE"} /\ calls = 1
    /\ db.rows # {}
    /\ \A a \in db.rows : a.balance = 0 /\ a.number = InitNumber(a.id)

\* C11: DeleteAccount succeeds whether or not a record has the id, removes
\* that record and no other (so an absent id leaves the table as it was),
\* and a second DeleteAccount of the same id right after succeeds too and
\* leaves the table as the first call left it.
C11_DeleteIdempotent ==
    [][(now' = now /\ req'.op = "DeleteAccount")
       => /\ resp'.err = NoError
          /\ db' = [db EXCEPT !.rows = {a \in @ : a.id # req'.id}]
          /\ ((~ \E a \in db.rows : a.id = req'.id) => db' = db)
          /\ DeleteAccount(Context(db', now, 0), req'.id).err = NoError
          /\ DeleteAccount(Context(db', now, 0), req'.id).st.db = db']_vars

\* DeleteAccount was called with an id no record ever had, while records
\* were stored: it was sent, succeeded, and the records are all still there.
C11_Witness ==
    /\ req.op = "DeleteAccount" /\ req.id = 0
    /\ Len(stmts) = 1 /\ stmts[1].kind = "DELETE"
    /\ resp.err = NoError
    /\ db = InitDB

\* g is what a lookup of id in table d must return: the record with exactly
\* that id, or the not-found error and no account.
LookupAgrees(d, id, g) ==
    IF \E a \in d.rows : a.id = id
    THEN g.err = NoError /\ g.account \in d.rows /\ g.account.id = id
    ELSE g.err = ErrNotFound /\ g.account = ZeroAccount

\* C12: GetAccountById fails with the not-found error and returns no account
\* for an id no stored record has (a deleted one included) and returns the
\* record with exactly that id otherwise; a request to a protected route
\* whose path id has no record ends in Denied and never reaches the handler
\* (stated here as: a request that did not end so named a stored record).
\* The lookups are checked on the table every DELETE request leaves, be it
\* the table it found or one with a record less.
C12_AbsentIdNotFound ==
    [][/\ req'.method = "DELETE" =>
            \A id \in StoreIds :
                LookupAgrees(db', id, GetAccountById(Context(db', now', 0), id))
       /\ (/\ auth' # "Denied" \/ calls' # 0 \/ db' # db
           /\ now' = now /\ req'.path \in ProtectedPaths)
          => /\ getId(req').err = NoError
             /\ \E a \in db.rows : a.id = getId(req').id]_vars

\* The last account was deleted, and a later request for its id carrying
\* its own unexpired token was looked up and denied.
C12_Witness ==
    /\ req.path = "/account/{id}" /\ req.method = "GET"
    /\ getId(req).err = NoError /\ getId(req).id = InitAccounts
    /\ ~ \E a \in db.rows : a.id = InitAccounts
    /\ SignedFor(InitNumber(InitAccounts)) /\ now < req.token.exp
    /\ Len(stmts) = 1 /\ stmts[1].kind = "SELECT"
    /\ auth = "Denied" /\ calls = 0 /\ resp = DeniedResponse

\* C13: a DELETE or PATCH to /account/{id} that changes the table carries a
\* valid token, and every record it removes or modifies has the number the
\* token's claim names; so a request with a valid token issued for another
\* account leaves the table as it was.
C13_OnlyOwnerModifies ==
    [][(/\ now' = now /\ req'.path = "/account/{id}"
        /\ req'.method \in {"DELETE", "PATCH"} /\ db' # db)
       => /\ validateJWTToken(req'.token, now).err = NoError
          /\ validateJWTToken(req'.token, now).valid
          /\ req'.token.hasNum
          /\ \A a \in db.rows : a \notin db'.rows => a.number = req'.token.num]_vars

\* The assignment set, if it names a name column, takes that name's value
\* from the arguments args of a request for account.
BoundToField(set, args, account) ==
    /\ set.col \in {"first_name", "last_name"} =>
          /\ IsParam(set.val)
          /\ args[ParamIndex(set.val)] = TextArg(account[set.col])
    /\ set.col \notin {"first_name", "last_name"} \/ account[set.col] # ""

\* C14: for every UpdateAccount request with at least one name, the
\* statement UpdateAccount builds is well formed: it parses with its
\* assignments (the updated_at one included) separated by commas, its
\* placeholders are exactly $1..$n for the n arguments passed, each name's
\* placeholder is bound to that name's value and the WHERE placeholder to
\* the id.
C14_UpdateStatementWellFormed ==
    (/\ req.op = "UpdateAccount"
     /\ (req.account.first_name # "" \/ req.account.last_name # ""))
        => /\ ParseUpdate(UpdateQuery(req.account)).ok
           /\ ParamError(UpdateParams(ParseUpdate(UpdateQuery(req.account))),
                         UpdateArgs(req.id, req.account)) = NoError
           /\ \E k \in 1 .. Len(ParseUpdate(UpdateQuery(req.account)).sets) :
                  ParseUpdate(UpdateQuery(req.account)).sets[k].col = "updated_at"
           /\ \A k \in 1 .. Len(ParseUpdate(UpdateQuery(req.account)).sets) :
                  BoundToField(ParseUpdate(UpdateQuery(req.account)).sets[k],
                               UpdateArgs(req.id, req.account), req.account)
           /\ UpdateArgs(req.id, req.account)[ParamIndex(ParseUpdate(UpdateQuery(req.account)).where)]
                  = IntArg(req.id)

====
